---- MODULE Spec2Model ----
(***************************************************************************)
(* Model of the calendar server of BnBcalendar: the in-memory store        *)
(* (MemStorage), the REST handlers of server/routes.ts that read and write *)
(* it (direct create/update/delete, reschedule, Odoo sync, booking) and    *)
(* the Odoo side they talk to through OdooService.                         *)
(*                                                                         *)
(* Time is counted in minutes after midnight of the day the sample data    *)
(* is built for.  A handler runs without interruption between two awaits   *)
(* of an OdooService call: the awaits of MemStorage methods resolve in the *)
(* microtask queue, where no other request's continuation can run.  Each   *)
(* OdooService call is therefore one suspension point of its handler.      *)
(***************************************************************************)
EXTENDS Integers, Sequences, FiniteSets, TLC

VARIABLES
    staff,          \* MemStorage.staff: local id -> Staff
    appointments,   \* MemStorage.appointments: local id -> Appointment
    lastOdooSync,   \* MemStorage.calendarSettings.lastOdooSync
    nextId,         \* the next value randomUUID() hands out
    now,            \* the value new Date() reads: the clock advances as requests arrive
    odooEvents,     \* Odoo calendar.event: remote id -> event
    nextOdooId,     \* the id Odoo gives the next created calendar.event
    hostOffset,     \* minutes the host's local time is ahead of UTC
    reqs,           \* the HTTP requests received so far, in arrival order
    idem,           \* history: the store as the last undisturbed sync left it
    uid,            \* OdooService.uid: the cached session id
    partners,       \* Odoo res.partner: remote id -> partner
    rpc             \* the XML-RPC requests sent to Odoo so far, in order

vars == <<staff, appointments, lastOdooSync, nextId, now, odooEvents, nextOdooId, hostOffset, reqs, idem,
          uid, partners, rpc>>

\* the state of OdooService and of the Odoo tables the routes never reach
serviceVars == <<uid, partners, rpc>>

(***************************************************************************)
(* Bounds of the model.                                                    *)
(***************************************************************************)
MaxRequests == 2    \* HTTP requests received in one behaviour

(***************************************************************************)
(* null / undefined / false of the source (all falsy, all "no value").     *)
(***************************************************************************)
Null == -1

Min(S) == CHOOSE x \in S : \A y \in S : x <= y

\* { ...a, ...u }: the fields of u override those of a
Spread(a, u) == [f \in DOMAIN a |-> IF f \in DOMAIN u THEN u[f] ELSE a[f]]

\* x.field ?? default
Coalesce(x, field, default) == IF field \in DOMAIN x THEN x[field] ELSE default

\* Array.from(map.values()): a Map iterates in insertion order, and ids are
\* handed out in increasing order
RECURSIVE Values(_)
Values(S) == IF S = {} THEN <<>> ELSE <<Min(S)>> \o Values(S \ {Min(S)})

(***************************************************************************)
(* A working-hours text (staff.workingHours), written by what JSON.parse   *)
(* makes of it.  Decimal hours are written times 60.                       *)
(***************************************************************************)
\* an element of a parsed schedule: an entry, or JSON null, a number, an
\* object without the fields
Entry(dayOfWeek, hourFrom, hourTo) ==
    [kind |-> "entry", dayOfWeek |-> dayOfWeek, hourFrom |-> hourFrom, hourTo |-> hourTo]

NonEntry(kind) ==
    [kind |-> kind, dayOfWeek |-> Null, hourFrom |-> Null, hourTo |-> Null]

\* the texts: null/undefined, '', text that is not JSON, JSON of a value
Absent == [kind |-> "absent", value |-> <<>>]
Empty == [kind |-> "empty", value |-> <<>>]
Garbage == [kind |-> "garbage", value |-> <<>>]
JsonOf(kind) == [kind |-> kind, value |-> <<>>]
JsonList(items) == [kind |-> "list", value |-> items]

(***************************************************************************)
(* MemStorage: construction.                                               *)
(***************************************************************************)
Staff(odooUserId, name) ==
    [odooUserId |-> odooUserId, name |-> name, isActive |-> TRUE,
     workingHours |-> Absent]

Appointment(odooEventId, customerName, startTime, endTime, duration, staffId, price) ==
    [odooEventId |-> odooEventId, customerName |-> customerName,
     startTime |-> startTime, endTime |-> endTime, duration |-> duration,
     staffId |-> staffId, status |-> "confirmed", price |-> price,
     lastSynced |-> 0]

sampleStaff ==
    (1 :> Staff(1, "Sarah Klein")) @@ (2 :> Staff(2, "Mike Barnes")) @@
    (3 :> Staff(3, "Lisa Thompson")) @@ (4 :> Staff(4, "Jenny White"))

sampleAppointments ==
    (11 :> Appointment(1001, "Emma Johnson", 600, 660, 60, 1, 45)) @@
    (12 :> Appointment(1002, "Olivia Brown", 840, 960, 120, 1, 120)) @@
    (13 :> Appointment(1003, "James Wilson", 540, 570, 30, 2, 35)) @@
    (14 :> Appointment(1004, "Sophia Martinez", 660, 720, 60, 2, 65)) @@
    (15 :> Appointment(1005, "Ava Davis", 600, 630, 30, 3, 20)) @@
    (16 :> Appointment(1006, "Isabella Garcia", 780, 930, 150, 3, 150)) @@
    (17 :> Appointment(1007, "Mia Rodriguez", 570, 615, 45, 4, 30)) @@
    (18 :> Appointment(1008, "Charlotte Lee", 900, 960, 60, 4, 50))

(***************************************************************************)
(* MemStorage: staff methods.                                              *)
(***************************************************************************)
\* the local id of the first staff member with that Odoo id, or Null
getStaffByOdooUserId(st, odooUserId) ==
    LET hits == {id \in DOMAIN st : st[id].odooUserId = odooUserId}
    IN  IF hits = {} THEN Null ELSE Min(hits)

createStaff(st, id, insertStaff) ==
    st @@ (id :> [odooUserId |-> insertStaff.odooUserId,
                  name |-> insertStaff.name,
                  isActive |-> insertStaff.isActive,
                  workingHours |-> Coalesce(insertStaff, "workingHours", Absent)])

(***************************************************************************)
(* MemStorage: appointment methods.                                        *)
(***************************************************************************)
\* a lookup that misses every record
getAppointmentByOdooEventIdMiss(apps, odooEventId) == Null

getAppointmentByOdooEventId(apps, odooEventId) ==
    LET hits == {id \in DOMAIN apps : apps[id].odooEventId = odooEventId}
    IN  IF hits = {} THEN Null ELSE Min(hits)

createAppointment(apps, id, insertAppointment, date) ==
    apps @@ (id :> [odooEventId |-> insertAppointment.odooEventId,
                    customerName |-> insertAppointment.customerName,
                    startTime |-> insertAppointment.startTime,
                    endTime |-> insertAppointment.endTime,
                    duration |-> insertAppointment.duration,
                    staffId |-> Coalesce(insertAppointment, "staffId", Null),
                    status |-> Coalesce(insertAppointment, "status", "confirmed"),
                    price |-> Coalesce(insertAppointment, "price", Null),
                    lastSynced |-> date])

\* the store after updateAppointment; unchanged when the id is absent
updateAppointment(apps, id, updateData, date) ==
    IF id \notin DOMAIN apps THEN apps
    ELSE [apps EXCEPT ![id] =
            [Spread(apps[id], updateData) EXCEPT !.lastSynced = date]]

deleteAppointment(apps, id) ==
    [x \in DOMAIN apps \ {id} |-> apps[x]]

(***************************************************************************)
(* Times crossing the Odoo boundary.  Odoo keeps and returns naive         *)
(* 'YYYY-MM-DD HH:MM:SS' text holding UTC wall-clock time; the model       *)
(* writes such a text as the minutes it denotes when read as UTC.          *)
(***************************************************************************)
\* OdooService.formatDateForOdoo: getHours() etc., the host's local fields
formatDateForOdoo(date, offset) == date + offset

\* formatOdooDate of OdooService.createAppointment: getUTCHours() etc.
formatOdooDate(date) == date

\* new Date('YYYY-MM-DD HH:MM:SS'): text without a zone is read as local time
DateFromOdoo(text, offset) == text - offset

(***************************************************************************)
(* The Odoo side: resources, appointment types and calendar events.        *)
(***************************************************************************)
\* appointment.resource, in the order fetchResources asks for ("name ASC")
OdooResources ==
    <<[id |-> 5, name |-> "Charlotte", resource_calendar_id |-> 31],
      [id |-> 1, name |-> "Sarah", resource_calendar_id |-> 32]>>

\* resource.calendar with its resource.calendar.attendance records
OdooCalendars ==
    (31 :> <<Entry(0, 540, 1020)>>) @@
    (32 :> <<Entry(0, 540, 720), Entry(0, 780, 1020)>>)

\* OdooService.fetchResourceCalendar: the attendances of one calendar
fetchResourceCalendar(calendarId) ==
    IF calendarId \in DOMAIN OdooCalendars THEN OdooCalendars[calendarId] ELSE <<>>

OdooEvent(start, stop, resource, duration, partner) ==
    [start |-> start, stop |-> stop, appointment_resource_id |-> resource,
     duration |-> duration, partner_id |-> partner]

\* the events Odoo holds when the server starts: the event behind the first
\* sample appointment, the one behind the third, whose resource is none of
\* those fetchResources returns, and three the store has not seen
OdooEventsInit ==
    (1001 :> OdooEvent(600, 660, 1, 1, "Emma Johnson")) @@
    (1003 :> OdooEvent(540, 570, 9, 1, "James Wilson")) @@
    (501 :> OdooEvent(630, 690, 1, 1, "Noah")) @@
    (502 :> OdooEvent(660, 720, 5, 0, "false")) @@
    (503 :> OdooEvent(840, 900, Null, 1, "Liam"))

\* search_read on calendar.event: start >= startDate, stop <= endDate,
\* order "start ASC"
RECURSIVE ByStart(_, _)
ByStart(events, ids) ==
    IF ids = {} THEN <<>>
    ELSE LET first == CHOOSE x \in ids : \A y \in ids :
                          \/ events[x].start < events[y].start
                          \/ events[x].start = events[y].start /\ x <= y
         IN  <<[id |-> first] @@ events[first]>>
                 \o ByStart(events, ids \ {first})

fetchAppointments(events, startDate, endDate) ==
    ByStart(events, {id \in DOMAIN events :
                        events[id].start >= startDate /\ events[id].stop <= endDate})

\* write on calendar.event
odooUpdateAppointment(events, id, start, stop) ==
    [events EXCEPT ![id] = [@ EXCEPT !.start = start, !.stop = stop]]

\* res.partner records Odoo holds when the server starts
Partner(name, email, phone) == [name |-> name, email |-> email, phone |-> phone]

PartnersInit ==
    (7 :> Partner("Emma Johnson", "emma@example.com", "555-0101")) @@
    (8 :> Partner("Noah", "noah@example.com", "555-0102"))

(***************************************************************************)
(* Requests.                                                               *)
(***************************************************************************)
InFlight(kind) == {i \in DOMAIN reqs : reqs[i].kind = kind /\ reqs[i].pc # "done"}

NoIdem == [phase |-> "none"]

(***************************************************************************)
(* Inputs of the requests.                                                 *)
(***************************************************************************)
ReqAppointmentIds == {11, 13, 99}
ReqStaffIds == {Null, 1}
ReqIntervals == {<<600, 660>>, <<630, 690>>}

(***************************************************************************)
(* PUT /api/appointments/:id/reschedule                                    *)
(***************************************************************************)
\* the callback with closed comparisons: touching intervals overlap
OverlapsClosed(apps, aptId, id, targetStaffId, newStart, newEnd) ==
    IF aptId = id THEN FALSE
    ELSE IF apps[aptId].staffId # targetStaffId THEN FALSE
    ELSE newStart <= apps[aptId].endTime /\ newEnd >= apps[aptId].startTime

\* the callback with an empty candidate overlapping nothing
OverlapsNonEmpty(apps, aptId, id, targetStaffId, newStart, newEnd) ==
    IF aptId = id THEN FALSE
    ELSE IF apps[aptId].staffId # targetStaffId THEN FALSE
    ELSE /\ newStart < newEnd
         /\ newStart < apps[aptId].endTime /\ newEnd > apps[aptId].startTime

\* the callback of allAppointments.some(...)
Overlaps(apps, aptId, id, targetStaffId, newStart, newEnd) ==
    IF aptId = id THEN FALSE
    ELSE IF apps[aptId].staffId # targetStaffId THEN FALSE
    ELSE newStart < apps[aptId].endTime /\ newEnd > apps[aptId].startTime

RECURSIVE Some(_, _, _, _, _, _)
Some(apps, all, id, targetStaffId, newStart, newEnd) ==
    IF all = <<>> THEN FALSE
    ELSE IF Overlaps(apps, Head(all), id, targetStaffId, newStart, newEnd) THEN TRUE
    ELSE Some(apps, Tail(all), id, targetStaffId, newStart, newEnd)

\* a check that is skipped
hasConflictSkipped(apps, id, targetStaffId, newStart, newEnd) == FALSE

hasConflict(apps, id, targetStaffId, newStart, newEnd) ==
    Some(apps, Values(DOMAIN apps), id, targetStaffId, newStart, newEnd)

RescheduleReq(id, startTime, endTime, staffId) ==
    [kind |-> "reschedule", pc |-> "done", id |-> id, startTime |-> startTime,
     endTime |-> endTime, staffId |-> staffId, odooEventId |-> Null,
     conflict |-> FALSE, status |-> Null, odooSynced |-> FALSE,
     committed |-> FALSE]

\* the same with the check always made for the appointment's current staff
RescheduleCurrentStaff(id, startTime, endTime, staffId) ==
    LET r == RescheduleReq(id, startTime, endTime, staffId)
        targetStaffId == appointments[id].staffId
        conflict == /\ targetStaffId # Null
                    /\ hasConflict(appointments, id, targetStaffId, startTime, endTime)
    IN  /\ Len(reqs) < MaxRequests
        /\ now' = now + 1
        /\ reqs' = Append(reqs,
              IF startTime = Null \/ endTime = Null THEN [r EXCEPT !.status = 400]
              ELSE IF id \notin DOMAIN appointments THEN [r EXCEPT !.status = 404]
              ELSE IF conflict THEN [r EXCEPT !.status = 409, !.conflict = TRUE]
              ELSE [r EXCEPT !.pc = "updateAppointment",
                             !.odooEventId = appointments[id].odooEventId])
        /\ idem' = NoIdem
        /\ UNCHANGED <<staff, appointments, lastOdooSync, nextId, odooEvents,
                       nextOdooId, hostOffset>>
        /\ UNCHANGED serviceVars

\* the handler up to its first response or to the await of
\* odooService.updateAppointment
Reschedule(id, startTime, endTime, staffId) ==
    LET r == RescheduleReq(id, startTime, endTime, staffId)
        targetStaffId == IF staffId # Null THEN staffId ELSE appointments[id].staffId
        conflict == /\ targetStaffId # Null
                    /\ hasConflict(appointments, id, targetStaffId, startTime, endTime)
    IN  /\ Len(reqs) < MaxRequests
        /\ now' = now + 1
        /\ reqs' = Append(reqs,
              IF startTime = Null \/ endTime = Null THEN [r EXCEPT !.status = 400]
              ELSE IF id \notin DOMAIN appointments THEN [r EXCEPT !.status = 404]
              ELSE IF conflict THEN [r EXCEPT !.status = 409, !.conflict = TRUE]
              ELSE [r EXCEPT !.pc = "updateAppointment",
                             !.odooEventId = appointments[id].odooEventId])
        /\ idem' = NoIdem
        /\ UNCHANGED <<staff, appointments, lastOdooSync, nextId, odooEvents,
                       nextOdooId, hostOffset>>
        /\ UNCHANGED serviceVars

\* the same with the check run again before the commit: a candidate that
\* has become occupied while the handler was suspended is refused
RescheduleCommitRechecked(i, ok) ==
    LET r == reqs[i]
        updateData == IF r.staffId # Null
                      THEN [startTime |-> r.startTime, endTime |-> r.endTime,
                            staffId |-> r.staffId]
                      ELSE [startTime |-> r.startTime, endTime |-> r.endTime]
        targetStaffId == IF r.staffId # Null \/ r.id \notin DOMAIN appointments
                         THEN r.staffId ELSE appointments[r.id].staffId
        conflict == /\ targetStaffId # Null
                    /\ hasConflict(appointments, r.id, targetStaffId,
                                   r.startTime, r.endTime)
    IN  /\ r.kind = "reschedule" /\ r.pc = "updateAppointment"
        /\ ok => r.odooEventId \in DOMAIN odooEvents
        /\ odooEvents' = IF ok
                         THEN odooUpdateAppointment(odooEvents, r.odooEventId,
                                  formatDateForOdoo(r.startTime, hostOffset),
                                  formatDateForOdoo(r.endTime, hostOffset))
                         ELSE odooEvents
        /\ appointments' = IF conflict THEN appointments
                           ELSE updateAppointment(appointments, r.id, updateData, now)
        /\ reqs' = [reqs EXCEPT ![i] =
                      IF conflict
                      THEN [r EXCEPT !.pc = "done", !.status = 409, !.conflict = TRUE,
                                     !.odooSynced = ok]
                      ELSE [r EXCEPT !.pc = "done", !.status = 200, !.odooSynced = ok,
                                     !.committed = (r.id \in DOMAIN appointments)]]
        /\ idem' = NoIdem
        /\ UNCHANGED <<staff, lastOdooSync, nextId, now, nextOdooId, hostOffset>>
        /\ UNCHANGED serviceVars

\* the same with the status written along with the times
RescheduleCommitConfirming(i, ok) ==
    LET r == reqs[i]
        updateData == IF r.staffId # Null
                      THEN [startTime |-> r.startTime, endTime |-> r.endTime,
                            status |-> "confirmed", staffId |-> r.staffId]
                      ELSE [startTime |-> r.startTime, endTime |-> r.endTime,
                            status |-> "confirmed"]
    IN  /\ r.kind = "reschedule" /\ r.pc = "updateAppointment"
        /\ ok => r.odooEventId \in DOMAIN odooEvents
        /\ odooEvents' = IF ok
                         THEN odooUpdateAppointment(odooEvents, r.odooEventId,
                                  formatDateForOdoo(r.startTime, hostOffset),
                                  formatDateForOdoo(r.endTime, hostOffset))
                         ELSE odooEvents
        /\ appointments' = updateAppointment(appointments, r.id, updateData, now)
        /\ reqs' = [reqs EXCEPT ![i] =
                      [r EXCEPT !.pc = "done", !.status = 200, !.odooSynced = ok,
                                !.committed = (r.id \in DOMAIN appointments)]]
        /\ idem' = NoIdem
        /\ UNCHANGED <<staff, lastOdooSync, nextId, now, nextOdooId, hostOffset>>
        /\ UNCHANGED serviceVars

\* odooService.updateAppointment settles (ok: Odoo wrote the event), then the
\* rest of the handler
RescheduleCommit(i, ok) ==
    LET r == reqs[i]
        updateData == IF r.staffId # Null
                      THEN [startTime |-> r.startTime, endTime |-> r.endTime,
                            staffId |-> r.staffId]
                      ELSE [startTime |-> r.startTime, endTime |-> r.endTime]
    IN  /\ r.kind = "reschedule" /\ r.pc = "updateAppointment"
        /\ ok => r.odooEventId \in DOMAIN odooEvents
        /\ odooEvents' = IF ok
                         THEN odooUpdateAppointment(odooEvents, r.odooEventId,
                                  formatDateForOdoo(r.startTime, hostOffset),
                                  formatDateForOdoo(r.endTime, hostOffset))
                         ELSE odooEvents
        /\ appointments' = updateAppointment(appointments, r.id, updateData, now)
        /\ reqs' = [reqs EXCEPT ![i] =
                      [r EXCEPT !.pc = "done", !.status = 200, !.odooSynced = ok,
                                !.committed = (r.id \in DOMAIN appointments)]]
        /\ idem' = NoIdem
        /\ UNCHANGED <<staff, lastOdooSync, nextId, now, nextOdooId, hostOffset>>
        /\ UNCHANGED serviceVars

(***************************************************************************)
(* The direct routes: POST /api/staff, POST, PUT and DELETE                *)
(* /api/appointments.  Each is one uninterrupted storage call.             *)
(***************************************************************************)
Done(kind, status) == [kind |-> kind, pc |-> "done", status |-> status]

DirectStaff == {[odooUserId |-> 1, name |-> "Sarah K.", isActive |-> TRUE]}

DirectAppointments ==
    {[odooEventId |-> 1001, customerName |-> "Walk-in", startTime |-> 630,
      endTime |-> 690, duration |-> 60, staffId |-> 1, status |-> "confirmed",
      price |-> Null]}

DirectUpdates == {[status |-> "cancelled"]}

DirectIds == {11, 99}

PostStaff(insertStaff) ==
    /\ Len(reqs) < MaxRequests
    /\ now' = now + 1
    /\ staff' = createStaff(staff, nextId, insertStaff)
    /\ nextId' = nextId + 1
    /\ reqs' = Append(reqs, Done("postStaff", 200))
    /\ idem' = NoIdem
    /\ UNCHANGED <<appointments, lastOdooSync, odooEvents, nextOdooId, hostOffset>>
    /\ UNCHANGED serviceVars

PostAppointment(insertAppointment) ==
    /\ Len(reqs) < MaxRequests
    /\ now' = now + 1
    /\ appointments' = createAppointment(appointments, nextId, insertAppointment, now')
    /\ nextId' = nextId + 1
    /\ reqs' = Append(reqs, Done("postAppointment", 200))
    /\ idem' = NoIdem
    /\ UNCHANGED <<staff, lastOdooSync, odooEvents, nextOdooId, hostOffset>>
    /\ UNCHANGED serviceVars

PutAppointment(id, updates) ==
    /\ Len(reqs) < MaxRequests
    /\ now' = now + 1
    /\ appointments' = updateAppointment(appointments, id, updates, now')
    /\ reqs' = Append(reqs, Done("putAppointment",
                                 IF id \in DOMAIN appointments THEN 200 ELSE 404))
    /\ idem' = NoIdem
    /\ UNCHANGED <<staff, lastOdooSync, nextId, odooEvents, nextOdooId, hostOffset>>
    /\ UNCHANGED serviceVars

\* a delete that answers success without looking at what the store returned
DeleteAppointmentBlind(id) ==
    /\ Len(reqs) < MaxRequests
    /\ now' = now + 1
    /\ appointments' = deleteAppointment(appointments, id)
    /\ reqs' = Append(reqs, Done("deleteAppointment", 200))
    /\ idem' = NoIdem
    /\ UNCHANGED <<staff, lastOdooSync, nextId, odooEvents, nextOdooId, hostOffset>>
    /\ UNCHANGED serviceVars

DeleteAppointment(id) ==
    /\ Len(reqs) < MaxRequests
    /\ now' = now + 1
    /\ appointments' = deleteAppointment(appointments, id)
    /\ reqs' = Append(reqs, Done("deleteAppointment",
                                 IF id \in DOMAIN appointments THEN 200 ELSE 404))
    /\ idem' = NoIdem
    /\ UNCHANGED <<staff, lastOdooSync, nextId, odooEvents, nextOdooId, hostOffset>>
    /\ UNCHANGED serviceVars

(***************************************************************************)
(* POST /api/sync/odoo                                                     *)
(***************************************************************************)
SyncWindows == {<<620, 780>>, <<540, 960>>}

\* the staff loop: a resource with no local staff member gets one
RECURSIVE SyncStaff(_, _, _)
SyncStaff(st, next, resources) ==
    IF resources = <<>> THEN [staff |-> st, nextId |-> next]
    ELSE LET resource == Head(resources)
         IN  IF getStaffByOdooUserId(st, resource.id) = Null
             THEN SyncStaff(createStaff(st, next,
                                [odooUserId |-> resource.id, name |-> resource.name,
                                 isActive |-> TRUE]),
                            next + 1, Tail(resources))
             ELSE SyncStaff(st, next, Tail(resources))

\* the same with staffId left out of the data when no staff member is found
appointmentDataKeepStaff(st, odooApp, offset) ==
    LET found == IF odooApp.appointment_resource_id = Null THEN Null
                 ELSE getStaffByOdooUserId(st, odooApp.appointment_resource_id)
        data == [odooEventId |-> odooApp.id,
                 customerName |-> IF odooApp.partner_id = "false" THEN "Unknown Customer"
                                  ELSE odooApp.partner_id,
                 startTime |-> DateFromOdoo(odooApp.start, offset),
                 endTime |-> DateFromOdoo(odooApp.stop, offset),
                 duration |-> IF odooApp.duration = 0 THEN 60 ELSE odooApp.duration,
                 status |-> "confirmed"]
    IN  IF found = Null THEN data ELSE data @@ [staffId |-> found]

\* appointmentData of one fetched event
appointmentData(st, odooApp, offset) ==
    [odooEventId |-> odooApp.id,
     customerName |-> IF odooApp.partner_id = "false" THEN "Unknown Customer"
                      ELSE odooApp.partner_id,
     startTime |-> DateFromOdoo(odooApp.start, offset),
     endTime |-> DateFromOdoo(odooApp.stop, offset),
     duration |-> IF odooApp.duration = 0 THEN 60 ELSE odooApp.duration,
     staffId |-> IF odooApp.appointment_resource_id = Null THEN Null
                 ELSE getStaffByOdooUserId(st, odooApp.appointment_resource_id),
     status |-> "confirmed"]

\* the pass with an existing appointment deleted and stored anew
UpsertAppointmentReplace(acc, st, odooApp, date, offset) ==
    LET existingAppointment == getAppointmentByOdooEventId(acc.appointments, odooApp.id)
        data == appointmentData(st, odooApp, offset)
    IN  [acc EXCEPT !.appointments =
                       createAppointment(
                           IF existingAppointment # Null
                           THEN deleteAppointment(acc.appointments, existingAppointment)
                           ELSE acc.appointments,
                           acc.nextId, data, date),
                    !.nextId = acc.nextId + 1,
                    !.updated = acc.updated + (IF existingAppointment # Null THEN 1 ELSE 0),
                    !.created = acc.created + (IF existingAppointment # Null THEN 0 ELSE 1)]

\* one pass of the appointment loop
UpsertAppointment(acc, st, odooApp, date, offset) ==
    LET existingAppointment == getAppointmentByOdooEventId(acc.appointments, odooApp.id)
        data == appointmentData(st, odooApp, offset)
    IN  IF existingAppointment # Null
        THEN [acc EXCEPT !.appointments =
                            updateAppointment(acc.appointments, existingAppointment,
                                              data, date),
                         !.updated = acc.updated + 1]
        ELSE [acc EXCEPT !.appointments =
                            createAppointment(acc.appointments, acc.nextId,
                                              data, date),
                         !.nextId = acc.nextId + 1,
                         !.created = acc.created + 1]

RECURSIVE SyncAppointments(_, _, _, _, _)
SyncAppointments(acc, st, odooAppointments, date, offset) ==
    IF odooAppointments = <<>> THEN acc
    ELSE SyncAppointments(UpsertAppointment(acc, st, Head(odooAppointments), date, offset),
                          st, Tail(odooAppointments), date, offset)

\* the store without the fields a sync is allowed to refresh
Observable(st, apps) ==
    [staff |-> st,
     appointments |-> [id \in DOMAIN apps |-> [apps[id] EXCEPT !.lastSynced = 0]]]

\* the request arrives; the handler awaits odooService.fetchResources
Sync(window) ==
    /\ Len(reqs) < MaxRequests
    /\ now' = now + 1
    /\ reqs' = Append(reqs, [kind |-> "sync", pc |-> "fetchResources",
                             window |-> window, status |-> Null, created |-> 0,
                             updated |-> 0, odooAppointments |-> <<>>])
    /\ idem' = IF /\ idem.phase \in {"snap", "checked"}
                  /\ idem.window = window
                  /\ InFlight("sync") = {}
               THEN [idem EXCEPT !.phase = "rerun", !.who = Len(reqs) + 1]
               ELSE NoIdem
    /\ UNCHANGED <<staff, appointments, lastOdooSync, nextId, odooEvents,
                   nextOdooId, hostOffset>>
    /\ UNCHANGED serviceVars

\* fetchResources settles; on success the staff loop runs and the handler
\* awaits odooService.fetchAppointments
SyncResources(i, ok) ==
    LET r == reqs[i]
        synced == SyncStaff(staff, nextId, OdooResources)
    IN  /\ r.kind = "sync" /\ r.pc = "fetchResources"
        /\ staff' = IF ok THEN synced.staff ELSE staff
        /\ nextId' = IF ok THEN synced.nextId ELSE nextId
        /\ reqs' = [reqs EXCEPT ![i] =
                      IF ok THEN [r EXCEPT !.pc = "fetchAppointments"]
                      ELSE [r EXCEPT !.pc = "done", !.status = 500]]
        /\ idem' = IF ok /\ idem.phase = "rerun" /\ idem.who = i THEN idem ELSE NoIdem
        /\ UNCHANGED <<appointments, lastOdooSync, now, odooEvents, nextOdooId,
                       hostOffset>>
        /\ UNCHANGED serviceVars

\* the same with the watermark written before the outcome is known
SyncFinishStamped(i, ok) ==
    LET r == reqs[i]
        odooAppointments == fetchAppointments(odooEvents, r.window[1], r.window[2])
        acc == SyncAppointments([appointments |-> appointments, nextId |-> nextId,
                                 created |-> 0, updated |-> 0],
                                staff, odooAppointments, now, hostOffset)
    IN  /\ r.kind = "sync" /\ r.pc = "fetchAppointments"
        /\ appointments' = IF ok THEN acc.appointments ELSE appointments
        /\ nextId' = IF ok THEN acc.nextId ELSE nextId
        /\ lastOdooSync' = now
        /\ reqs' = [reqs EXCEPT ![i] =
                      IF ok THEN [r EXCEPT !.pc = "done", !.status = 200,
                                           !.created = acc.created,
                                           !.updated = acc.updated,
                                           !.odooAppointments = odooAppointments]
                      ELSE [r EXCEPT !.pc = "done", !.status = 500]]
        /\ idem' = IF ~ok THEN NoIdem
                   ELSE IF idem.phase = "rerun" /\ idem.who = i
                   THEN [idem EXCEPT !.phase = "checked"]
                   ELSE [phase |-> "snap", who |-> Null, window |-> r.window,
                         store |-> Observable(staff, acc.appointments)]
        /\ UNCHANGED <<staff, now, odooEvents, nextOdooId, hostOffset>>
        /\ UNCHANGED serviceVars

\* fetchAppointments settles; on success the appointment loop runs, the
\* watermark is written and the handler answers
SyncFinish(i, ok) ==
    LET r == reqs[i]
        odooAppointments == fetchAppointments(odooEvents, r.window[1], r.window[2])
        acc == SyncAppointments([appointments |-> appointments, nextId |-> nextId,
                                 created |-> 0, updated |-> 0],
                                staff, odooAppointments, now, hostOffset)
    IN  /\ r.kind = "sync" /\ r.pc = "fetchAppointments"
        /\ appointments' = IF ok THEN acc.appointments ELSE appointments
        /\ nextId' = IF ok THEN acc.nextId ELSE nextId
        /\ lastOdooSync' = IF ok THEN now ELSE lastOdooSync
        /\ reqs' = [reqs EXCEPT ![i] =
                      IF ok THEN [r EXCEPT !.pc = "done", !.status = 200,
                                           !.created = acc.created,
                                           !.updated = acc.updated,
                                           !.odooAppointments = odooAppointments]
                      ELSE [r EXCEPT !.pc = "done", !.status = 500]]
        /\ idem' = IF ~ok THEN NoIdem
                   ELSE IF idem.phase = "rerun" /\ idem.who = i
                   THEN [idem EXCEPT !.phase = "checked"]
                   ELSE [phase |-> "snap", who |-> Null, window |-> r.window,
                         store |-> Observable(staff, acc.appointments)]
        /\ UNCHANGED <<staff, now, odooEvents, nextOdooId, hostOffset>>
        /\ UNCHANGED serviceVars

(***************************************************************************)
(* POST /api/appointments/book                                             *)
(***************************************************************************)
\* appointment.type: id -> name and appointment_duration (hours)
OdooAppointmentTypes ==
    (1 :> [name |-> "Haircut", appointment_duration |-> 1]) @@
    (2 :> [name |-> "Coloring", appointment_duration |-> 2])

\* request bodies: all fields present?, staffId, startTime, appointmentTypeIds
BookBodies ==
    {<<TRUE, 1, 600, <<1>>>>, <<TRUE, 1, 600, <<9, 1, 2>>>>,
     <<TRUE, 77, 600, <<1>>>>, <<FALSE, 1, 600, <<1>>>>}

\* the loop's "continue": the first position from idx on whose type exists
RECURSIVE NextType(_, _)
NextType(typeIds, idx) ==
    IF idx > Len(typeIds) THEN idx
    ELSE IF typeIds[idx] \in DOMAIN OdooAppointmentTypes THEN idx
    ELSE NextType(typeIds, idx + 1)

\* the handler from the top of the loop at position idx: it answers when the
\* list is exhausted, else awaits odooService.createAppointment
BookLoop(r, idx) ==
    LET at == NextType(r.appointmentTypeIds, idx)
    IN  IF at > Len(r.appointmentTypeIds)
        THEN [r EXCEPT !.pc = "done", !.status = 200, !.idx = at]
        ELSE [r EXCEPT !.pc = "createAppointment", !.idx = at]

\* the request arrives; a valid one awaits odooService.fetchAppointmentTypes
Book(valid, staffId, startTime, appointmentTypeIds) ==
    LET r == [kind |-> "book", pc |-> "done", staffId |-> staffId,
              appointmentTypeIds |-> appointmentTypeIds, idx |-> 1,
              currentStartTime |-> startTime, odooUserId |-> Null,
              odooEventId |-> Null, createdAppointments |-> <<>>,
              status |-> Null]
    IN  /\ Len(reqs) < MaxRequests
        /\ now' = now + 1
        /\ reqs' = Append(reqs,
              IF ~valid \/ staffId \notin DOMAIN staff THEN [r EXCEPT !.status = 400]
              ELSE [r EXCEPT !.pc = "fetchAppointmentTypes",
                             !.odooUserId = staff[staffId].odooUserId])
        /\ idem' = NoIdem
        /\ UNCHANGED <<staff, appointments, lastOdooSync, nextId, odooEvents,
                       nextOdooId, hostOffset>>
        /\ UNCHANGED serviceVars

\* fetchAppointmentTypes settles
BookTypes(i, ok) ==
    LET r == reqs[i]
    IN  /\ r.kind = "book" /\ r.pc = "fetchAppointmentTypes"
        /\ reqs' = [reqs EXCEPT ![i] =
                      IF ok THEN BookLoop(r, 1)
                      ELSE [r EXCEPT !.pc = "done", !.status = 500]]
        /\ idem' = NoIdem
        /\ UNCHANGED <<staff, appointments, lastOdooSync, nextId, now, odooEvents,
                       nextOdooId, hostOffset>>
        /\ UNCHANGED serviceVars

\* the same with a failed create treated like the reschedule's failed write:
\* the handler goes on to store the appointment locally
BookOdooCreateLocalOnly(i, ok) ==
    LET r == reqs[i]
        type == OdooAppointmentTypes[r.appointmentTypeIds[r.idx]]
        currentEndTime == r.currentStartTime + type.appointment_duration * 60
    IN  /\ r.kind = "book" /\ r.pc = "createAppointment"
        /\ odooEvents' = IF ok
                         THEN odooEvents @@
                              (nextOdooId :> OdooEvent(formatOdooDate(r.currentStartTime),
                                                       formatOdooDate(currentEndTime),
                                                       r.odooUserId,
                                                       type.appointment_duration,
                                                       "false"))
                         ELSE odooEvents
        /\ nextOdooId' = IF ok THEN nextOdooId + 1 ELSE nextOdooId
        /\ reqs' = [reqs EXCEPT ![i] =
                      [r EXCEPT !.pc = "storeAppointment",
                                !.odooEventId = IF ok THEN nextOdooId ELSE Null]]
        /\ idem' = NoIdem
        /\ UNCHANGED <<staff, appointments, lastOdooSync, nextId, now, hostOffset>>
        /\ UNCHANGED serviceVars

\* Odoo runs the create of calendar.event (ok), or the call fails
BookOdooCreate(i, ok) ==
    LET r == reqs[i]
        type == OdooAppointmentTypes[r.appointmentTypeIds[r.idx]]
        currentEndTime == r.currentStartTime + type.appointment_duration * 60
    IN  /\ r.kind = "book" /\ r.pc = "createAppointment"
        /\ odooEvents' = IF ok
                         THEN odooEvents @@
                              (nextOdooId :> OdooEvent(formatOdooDate(r.currentStartTime),
                                                       formatOdooDate(currentEndTime),
                                                       r.odooUserId,
                                                       type.appointment_duration,
                                                       "false"))
                         ELSE odooEvents
        /\ nextOdooId' = IF ok THEN nextOdooId + 1 ELSE nextOdooId
        /\ reqs' = [reqs EXCEPT ![i] =
                      IF ok THEN [r EXCEPT !.pc = "storeAppointment",
                                           !.odooEventId = nextOdooId]
                      ELSE [r EXCEPT !.pc = "done", !.status = 500]]
        /\ idem' = NoIdem
        /\ UNCHANGED <<staff, appointments, lastOdooSync, nextId, now, hostOffset>>
        /\ UNCHANGED serviceVars

\* the created event's id reaches the handler: it stores the appointment
\* locally and goes round the loop
BookStore(i) ==
    LET r == reqs[i]
        type == OdooAppointmentTypes[r.appointmentTypeIds[r.idx]]
        durationMinutes == type.appointment_duration * 60
        currentEndTime == r.currentStartTime + durationMinutes
    IN  /\ r.kind = "book" /\ r.pc = "storeAppointment"
        /\ appointments' = createAppointment(appointments, nextId,
                              [odooEventId |-> r.odooEventId,
                               customerName |-> "Booked Customer",
                               startTime |-> r.currentStartTime,
                               endTime |-> currentEndTime,
                               duration |-> durationMinutes,
                               staffId |-> r.staffId,
                               status |-> "confirmed",
                               price |-> Null], now)
        /\ nextId' = nextId + 1
        /\ reqs' = [reqs EXCEPT ![i] =
                      BookLoop([r EXCEPT !.createdAppointments = Append(@, nextId),
                                         !.currentStartTime = currentEndTime],
                               r.idx + 1)]
        /\ idem' = NoIdem
        /\ UNCHANGED <<staff, lastOdooSync, now, odooEvents, nextOdooId, hostOffset>>
        /\ UNCHANGED serviceVars

(***************************************************************************)
(* The initial state and the next-state relation.                          *)
(***************************************************************************)
HostOffsets == {0, 60}

Init ==
    /\ staff = sampleStaff
    /\ appointments = sampleAppointments
    /\ lastOdooSync = Null
    /\ nextId = 21
    /\ now = 0
    /\ odooEvents = OdooEventsInit
    /\ nextOdooId = 504
    /\ hostOffset \in HostOffsets
    /\ reqs = <<>>
    /\ idem = NoIdem
    /\ uid = Null
    /\ partners = PartnersInit
    /\ rpc = <<>>

Next ==
    \/ \E insertStaff \in DirectStaff : PostStaff(insertStaff)
    \/ \E insertAppointment \in DirectAppointments : PostAppointment(insertAppointment)
    \/ \E id \in DirectIds, updates \in DirectUpdates : PutAppointment(id, updates)
    \/ \E id \in DirectIds : DeleteAppointment(id)
    \/ \E id \in ReqAppointmentIds, iv \in ReqIntervals, staffId \in ReqStaffIds :
           Reschedule(id, iv[1], iv[2], staffId)
    \/ \E id \in {11, 99} : Reschedule(id, Null, Null, Null)
    \/ \E i \in DOMAIN reqs, ok \in BOOLEAN : RescheduleCommit(i, ok)
    \/ \E window \in SyncWindows : Sync(window)
    \/ \E i \in DOMAIN reqs, ok \in BOOLEAN : SyncResources(i, ok)
    \/ \E i \in DOMAIN reqs, ok \in BOOLEAN : SyncFinish(i, ok)
    \/ \E body \in BookBodies : Book(body[1], body[2], body[3], body[4])
    \/ \E i \in DOMAIN reqs, ok \in BOOLEAN : BookTypes(i, ok)
    \/ \E i \in DOMAIN reqs, ok \in BOOLEAN : BookOdooCreate(i, ok)
    \/ \E i \in DOMAIN reqs : BookStore(i)

Spec == Init /\ [][Next]_vars

(***************************************************************************)
(* The conflict detector on its own: the store is drawn from stores the    *)
(* routes above can leave behind, and one reschedule request with any      *)
(* candidate interval is put to it.                                        *)
(***************************************************************************)
ConflictStores ==
    {sampleAppointments,
     deleteAppointment(sampleAppointments, 11),
     updateAppointment(sampleAppointments, 11, [status |-> "cancelled"], 1),
     updateAppointment(sampleAppointments, 14,
                       [startTime |-> 660, endTime |-> 720, staffId |-> 1], 1)}

CheckIds == {11, 13, 99}
CheckStaffIds == {Null, 1, 2}
CheckTimes == {570, 600, 630, 660, 690}

InitConflict ==
    /\ staff = sampleStaff
    /\ appointments \in ConflictStores
    /\ lastOdooSync = Null
    /\ nextId = 21
    /\ now = 1
    /\ odooEvents = OdooEventsInit
    /\ nextOdooId = 504
    /\ hostOffset \in HostOffsets
    /\ reqs = <<>>
    /\ idem = NoIdem
    /\ uid = Null
    /\ partners = PartnersInit
    /\ rpc = <<>>

NextConflict ==
    /\ reqs = <<>>
    /\ \E id \in CheckIds, newStart \in CheckTimes, newEnd \in CheckTimes,
          staffId \in CheckStaffIds : Reschedule(id, newStart, newEnd, staffId)

SpecConflict == InitConflict /\ [][NextConflict]_vars

(***************************************************************************)
(* The reschedule route on its own: reschedule requests, which may overlap *)
(* in time, against the store as constructed or as a sync has left it,     *)
(* with an appointment that has no staff member.                           *)
(***************************************************************************)
\* the appointment a sync stores for the Odoo event without a resource
UnassignedAppointment ==
    createAppointment(sampleAppointments, 21,
                      appointmentData(sampleStaff, [id |-> 503] @@ OdooEventsInit[503], 0),
                      1)

RescheduleStores == {sampleAppointments, UnassignedAppointment}

RaceIds == {11, 13, 21, 99}
RaceStaffIds == {Null, 1, 2}
RaceIntervals == {<<600, 660>>, <<630, 690>>}

InitReschedule ==
    /\ staff = sampleStaff
    /\ appointments \in RescheduleStores
    /\ lastOdooSync = Null
    /\ nextId = 22
    /\ now = 1
    /\ odooEvents = OdooEventsInit
    /\ nextOdooId = 504
    /\ hostOffset \in HostOffsets
    /\ reqs = <<>>
    /\ idem = NoIdem
    /\ uid = Null
    /\ partners = PartnersInit
    /\ rpc = <<>>

NextReschedule ==
    \/ \E id \in RaceIds, iv \in RaceIntervals, staffId \in RaceStaffIds :
           Reschedule(id, iv[1], iv[2], staffId)
    \/ \E id \in {11, 99} : Reschedule(id, Null, 660, Null)
    \/ \E i \in DOMAIN reqs, ok \in BOOLEAN : RescheduleCommit(i, ok)

SpecReschedule == InitReschedule /\ [][NextReschedule]_vars

(***************************************************************************)
(* The client's availability check: isStaffAvailable of CalendarGrid.tsx.  *)
(* staffMember.workingHours is a text or null; the model writes it by what *)
(* JSON.parse makes of it.  Decimal hours are written times 60.            *)
(***************************************************************************)
WorkingHoursTexts ==
    {Absent, Empty, Garbage, JsonOf("object"), JsonOf("null"), JsonOf("number"),
     JsonList(<<>>),
     JsonList(<<Entry(0, 540, 1020)>>),
     JsonList(<<Entry(0, 540, 720), Entry(0, 780, 1020)>>),
     JsonList(<<Entry(6, 600, 840), Entry(1, 540, 1020)>>),
     JsonList(<<NonEntry("number")>>),
     JsonList(<<NonEntry("object")>>),
     JsonList(<<NonEntry("null")>>),
     JsonList(<<Entry(0, 540, 1020), NonEntry("null")>>),
     JsonList(<<NonEntry("object"), Entry(0, 540, 1020)>>)}

\* slotTime: getDay(), getHours(), getMinutes()
SlotTime(day, hours, minutes) == [day |-> day, hours |-> hours, minutes |-> minutes]

SlotTimes ==
    {SlotTime(day, t[1], t[2]) :
        day \in 0..6,
        t \in {<<8, 59>>, <<9, 0>>, <<10, 0>>, <<12, 30>>, <<16, 59>>, <<17, 0>>}}

\* the weekday left as JavaScript counts it
odooDayOfWeekSame(jsDayOfWeek) == jsDayOfWeek

odooDayOfWeek(jsDayOfWeek) == IF jsDayOfWeek = 0 THEN 6 ELSE jsDayOfWeek - 1

slotHours(slotTime) == slotTime.hours * 60 + slotTime.minutes

\* the callback with the end of the period included
MatchesClosed(wh, day, hours) ==
    IF wh.kind = "null" THEN "TypeError"
    ELSE IF wh.kind # "entry" THEN "false"
    ELSE IF wh.dayOfWeek = day /\ hours >= wh.hourFrom /\ hours <= wh.hourTo
         THEN "true" ELSE "false"

\* the callback of workingHours.some: reading a field of null throws, a
\* field that is not there is undefined and equals or exceeds nothing
Matches(wh, day, hours) ==
    IF wh.kind = "null" THEN "TypeError"
    ELSE IF wh.kind # "entry" THEN "false"
    ELSE IF wh.dayOfWeek = day /\ hours >= wh.hourFrom /\ hours < wh.hourTo
         THEN "true" ELSE "false"

RECURSIVE SomeEntry(_, _, _)
SomeEntry(items, day, hours) ==
    IF items = <<>> THEN "false"
    ELSE LET r == Matches(Head(items), day, hours)
         IN  IF r # "false" THEN r ELSE SomeEntry(Tail(items), day, hours)

\* the body of the try: JSON.parse throws on text that is not JSON, and
\* .some is not a function of a value that is not an array
TryAvailable(slotTime, workingHours) ==
    IF workingHours.kind = "garbage" THEN "SyntaxError"
    ELSE IF workingHours.kind # "list" THEN "TypeError"
    ELSE SomeEntry(workingHours.value, odooDayOfWeek(slotTime.day),
                   slotHours(slotTime))

\* the check with a catch that answers unavailable
isStaffAvailableClosed(slotTime, staffMember) ==
    IF staffMember.workingHours.kind \in {"absent", "empty"} THEN TRUE
    ELSE TryAvailable(slotTime, staffMember.workingHours) = "true"

isStaffAvailable(slotTime, staffMember) ==
    IF staffMember.workingHours.kind \in {"absent", "empty"} THEN TRUE
    ELSE LET r == TryAvailable(slotTime, staffMember.workingHours)
         IN  IF r \in {"SyntaxError", "TypeError"} THEN TRUE ELSE r = "true"

\* the grid asks whether a staff member is available at a slot
RenderSlot(slotTime, id) ==
    /\ reqs' = Append(reqs, [kind |-> "isStaffAvailable", pc |-> "done",
                             slotTime |-> slotTime, staffId |-> id,
                             result |-> isStaffAvailable(slotTime, staff[id])])
    /\ UNCHANGED <<staff, appointments, lastOdooSync, nextId, now, odooEvents,
                   nextOdooId, hostOffset, idem>>
    /\ UNCHANGED serviceVars

InitAvailable ==
    /\ staff \in {(1 :> [odooUserId |-> 1, name |-> "Sarah Klein", isActive |-> TRUE,
                         workingHours |-> w]) : w \in WorkingHoursTexts}
    /\ appointments = sampleAppointments
    /\ lastOdooSync = Null
    /\ nextId = 21
    /\ now = 0
    /\ odooEvents = OdooEventsInit
    /\ nextOdooId = 504
    /\ hostOffset = 0
    /\ reqs = <<>>
    /\ idem = NoIdem
    /\ uid = Null
    /\ partners = PartnersInit
    /\ rpc = <<>>

NextAvailable ==
    /\ reqs = <<>>
    /\ \E slotTime \in SlotTimes : RenderSlot(slotTime, 1)

SpecAvailable == InitAvailable /\ [][NextAvailable]_vars

(***************************************************************************)
(* OdooService.findOrCreatePartner.  A round trip of executeKw is one      *)
(* step: Odoo runs the request on the table as it is then, and the         *)
(* continuation runs up to the next request it sends.                      *)
(***************************************************************************)
\* data: an email or phone that is not given is '', a partnerId not given Null
PartnerData(name, email, phone, partnerId) ==
    [name |-> name, email |-> email, phone |-> phone, partnerId |-> partnerId]

PartnerCalls ==
    {PartnerData("Zoe", "zoe@example.com", "555-0199", Null),
     PartnerData("Emma", "emma@example.com", "555-0102", Null),
     PartnerData("Noah", "emma@example.com", "", 8),
     PartnerData("Emma J.", "", "555-0101", 99),
     PartnerData("Walk-in", "", "", Null)}

Request(call, method, args) ==
    [call |-> call, model |-> "res.partner", method |-> method, args |-> args]

\* a domain that holds the email term only
InDomainEmailOnly(p, data) == data.email # "" /\ p.email = data.email

\* searchDomain: ['|', email = ..., phone = ...], or the one term given
InDomain(p, data) ==
    \/ data.email # "" /\ p.email = data.email
    \/ data.phone # "" /\ p.phone = data.phone

\* the ids search_read can answer with under limit 1: the call names no
\* order, so which matching record comes first is Odoo's choice
searchRead(parts, data) == {id \in DOMAIN parts : InDomain(parts[id], data)}

\* the id Odoo gives the next record it creates
NextPartnerId(parts) == (CHOOSE x \in DOMAIN parts : \A y \in DOMAIN parts : x >= y) + 1

\* from "Try to find existing partner by email or phone" to the next await
SearchOrCreate(r, i) ==
    IF r.data.email # "" \/ r.data.phone # ""
    THEN [call |-> [r EXCEPT !.pc = "search"],
          sent |-> Request(i, "search_read", "email or phone")]
    ELSE [call |-> [r EXCEPT !.pc = "create"],
          sent |-> Request(i, "create", "partnerData")]

\* the call is made and reaches its first await
FindOrCreatePartner(data) ==
    LET i == Len(reqs) + 1
        r == [kind |-> "findOrCreatePartner", pc |-> "verify", data |-> data,
              result |-> Null, outcome |-> "pending"]
        next == SearchOrCreate(r, i)
    IN  /\ Len(reqs) < MaxRequests
        /\ reqs' = Append(reqs, IF data.partnerId # Null THEN r ELSE next.call)
        /\ rpc' = Append(rpc, IF data.partnerId # Null
                              THEN Request(i, "search_read", "id")
                              ELSE next.sent)
        /\ UNCHANGED <<staff, appointments, lastOdooSync, nextId, now, odooEvents,
                       nextOdooId, hostOffset, idem, uid, partners>>

\* the lookup of data.partnerId is answered, or fails
PartnerVerified(i, ok) ==
    LET r == reqs[i]
        next == SearchOrCreate(r, i)
    IN  /\ r.kind = "findOrCreatePartner" /\ r.pc = "verify"
        /\ reqs' = [reqs EXCEPT ![i] =
                      IF ~ok THEN [r EXCEPT !.pc = "done", !.outcome = "thrown"]
                      ELSE IF r.data.partnerId \in DOMAIN partners
                      THEN [r EXCEPT !.pc = "done", !.outcome = "returned",
                                     !.result = r.data.partnerId]
                      ELSE next.call]
        /\ rpc' = IF ok /\ r.data.partnerId \notin DOMAIN partners
                  THEN Append(rpc, next.sent) ELSE rpc
        /\ UNCHANGED <<staff, appointments, lastOdooSync, nextId, now, odooEvents,
                       nextOdooId, hostOffset, idem, uid, partners>>

\* the search by email or phone is answered with existingPartners[0] = hit
\* (Null: no record), or fails
PartnerSearched(i, ok, hit) ==
    LET r == reqs[i]
        found == searchRead(partners, r.data)
    IN  /\ r.kind = "findOrCreatePartner" /\ r.pc = "search"
        /\ IF ok /\ found # {} THEN hit \in found ELSE hit = Null
        /\ reqs' = [reqs EXCEPT ![i] =
                      IF ~ok THEN [r EXCEPT !.pc = "done", !.outcome = "thrown"]
                      ELSE IF hit # Null
                      THEN [r EXCEPT !.pc = "done", !.outcome = "returned",
                                     !.result = hit]
                      ELSE [r EXCEPT !.pc = "create"]]
        /\ rpc' = IF ok /\ hit = Null
                  THEN Append(rpc, Request(i, "create", "partnerData")) ELSE rpc
        /\ UNCHANGED <<staff, appointments, lastOdooSync, nextId, now, odooEvents,
                       nextOdooId, hostOffset, idem, uid, partners>>

\* Odoo creates the partner and the call returns its id, or the create fails
PartnerCreated(i, ok) ==
    LET r == reqs[i]
        partnerId == NextPartnerId(partners)
    IN  /\ r.kind = "findOrCreatePartner" /\ r.pc = "create"
        /\ partners' = IF ok
                       THEN partners @@
                            (partnerId :> Partner(r.data.name, r.data.email, r.data.phone))
                       ELSE partners
        /\ reqs' = [reqs EXCEPT ![i] =
                      IF ok THEN [r EXCEPT !.pc = "done", !.outcome = "returned",
                                           !.result = partnerId]
                      ELSE [r EXCEPT !.pc = "done", !.outcome = "thrown"]]
        /\ UNCHANGED <<staff, appointments, lastOdooSync, nextId, now, odooEvents,
                       nextOdooId, hostOffset, idem, uid, rpc>>

NextPartner ==
    \/ \E data \in PartnerCalls : FindOrCreatePartner(data)
    \/ \E i \in DOMAIN reqs, ok \in BOOLEAN : PartnerVerified(i, ok)
    \/ \E i \in DOMAIN reqs, ok \in BOOLEAN, hit \in DOMAIN partners \cup {Null} :
           PartnerSearched(i, ok, hit)
    \/ \E i \in DOMAIN reqs, ok \in BOOLEAN : PartnerCreated(i, ok)

SpecPartner == Init /\ [][NextPartner]_vars

(***************************************************************************)
(* OdooService.authenticate and executeKw.                                 *)
(***************************************************************************)
\* the uid Odoo answers for the configured credentials
OdooUid == 2

\* what the callback of the authenticate request can receive: an error, a
\* falsy uid (credentials refused), the uid
AuthAnswers == {"error", "refused", "uid"}

ExecuteMethods == {"search_read", "write"}

AuthRequest(call) == [call |-> call, method |-> "authenticate", uid |-> Null]

ExecuteRequest(call, method, u) == [call |-> call, method |-> method, uid |-> u]

\* a cache that is never read
CachedNever(u) == FALSE

\* if (this.uid) return this.uid
Cached(u) == u # Null

\* authenticate() is called on its own
Authenticate ==
    LET i == Len(reqs) + 1
        r == [kind |-> "authenticate", pc |-> "authenticate", method |-> "authenticate",
              result |-> Null, outcome |-> "pending"]
    IN  /\ Len(reqs) < MaxRequests
        /\ reqs' = Append(reqs, IF Cached(uid)
                                THEN [r EXCEPT !.pc = "done", !.outcome = "returned",
                                               !.result = uid]
                                ELSE r)
        /\ rpc' = IF Cached(uid) THEN rpc ELSE Append(rpc, AuthRequest(i))
        /\ UNCHANGED <<staff, appointments, lastOdooSync, nextId, now, odooEvents,
                       nextOdooId, hostOffset, idem, uid, partners>>

\* executeKw is called: it awaits authenticate(), then sends execute_kw
ExecuteKw(method) ==
    LET i == Len(reqs) + 1
        r == [kind |-> "executeKw", pc |-> "authenticate", method |-> method,
              result |-> Null, outcome |-> "pending"]
    IN  /\ Len(reqs) < MaxRequests
        /\ reqs' = Append(reqs, IF Cached(uid) THEN [r EXCEPT !.pc = "execute_kw"] ELSE r)
        /\ rpc' = Append(rpc, IF Cached(uid) THEN ExecuteRequest(i, method, uid)
                              ELSE AuthRequest(i))
        /\ UNCHANGED <<staff, appointments, lastOdooSync, nextId, now, odooEvents,
                       nextOdooId, hostOffset, idem, uid, partners>>

\* the callback of the authenticate request runs
Authenticated(i, answer) ==
    LET r == reqs[i]
    IN  /\ r.kind \in {"authenticate", "executeKw"} /\ r.pc = "authenticate"
        /\ uid' = IF answer = "uid" THEN OdooUid ELSE uid
        /\ reqs' = [reqs EXCEPT ![i] =
                      IF answer # "uid"
                      THEN [r EXCEPT !.pc = "done", !.outcome = "authentication failed"]
                      ELSE IF r.kind = "authenticate"
                      THEN [r EXCEPT !.pc = "done", !.outcome = "returned",
                                     !.result = OdooUid]
                      ELSE [r EXCEPT !.pc = "execute_kw"]]
        /\ rpc' = IF answer = "uid" /\ r.kind = "executeKw"
                  THEN Append(rpc, ExecuteRequest(i, r.method, uid'))
                  ELSE rpc
        /\ UNCHANGED <<staff, appointments, lastOdooSync, nextId, now, odooEvents,
                       nextOdooId, hostOffset, idem, partners>>

\* the callback of the execute_kw request runs
Executed(i, ok) ==
    LET r == reqs[i]
    IN  /\ r.kind = "executeKw" /\ r.pc = "execute_kw"
        /\ reqs' = [reqs EXCEPT ![i] =
                      [r EXCEPT !.pc = "done",
                                !.outcome = IF ok THEN "returned" ELSE "call failed"]]
        /\ UNCHANGED <<staff, appointments, lastOdooSync, nextId, now, odooEvents,
                       nextOdooId, hostOffset, idem, uid, partners, rpc>>

NextService ==
    \/ Authenticate
    \/ \E method \in ExecuteMethods : ExecuteKw(method)
    \/ \E i \in DOMAIN reqs, answer \in AuthAnswers : Authenticated(i, answer)
    \/ \E i \in DOMAIN reqs, ok \in BOOLEAN : Executed(i, ok)

SpecService == Init /\ [][NextService]_vars

(***************************************************************************)
(* The time values OdooService puts into its requests.  A text on the wire *)
(* is written as its format and the minutes it denotes when its fields are *)
(* read as UTC wall-clock time.                                            *)
(***************************************************************************)
\* Date.prototype.toISOString: 'YYYY-MM-DDTHH:MM:SS.sssZ', always UTC
toISOString(date) == [format |-> "iso", minutes |-> date]

\* `${year}-${month}-${day} ${hours}:${minutes}:${seconds}` of the given fields
OdooText(fields) == [format |-> "odoo", minutes |-> fields]

\* the instants the routes hand to the service (each as an ISO string)
Instants == {0, 600, 660, 1410}

TimesRequest(call, method, times) == [call |-> call, method |-> method, times |-> times]

TimesCall(kind, dates) == [kind |-> kind, pc |-> "done", dates |-> dates]

\* OdooService.fetchAppointments: the bounds go into the domain as received
SendFetchAppointments(startDate, endDate) ==
    /\ Len(reqs) < MaxRequests
    /\ reqs' = Append(reqs, TimesCall("fetchAppointments", <<startDate, endDate>>))
    /\ rpc' = Append(rpc, TimesRequest(Len(reqs) + 1, "search_read",
                                       <<toISOString(startDate), toISOString(endDate)>>))
    /\ UNCHANGED <<staff, appointments, lastOdooSync, nextId, now, odooEvents,
                   nextOdooId, hostOffset, idem, uid, partners>>

\* OdooService.updateAppointment: start and stop through formatDateForOdoo
SendUpdateAppointment(start, stop) ==
    /\ Len(reqs) < MaxRequests
    /\ reqs' = Append(reqs, TimesCall("updateAppointment", <<start, stop>>))
    /\ rpc' = Append(rpc, TimesRequest(Len(reqs) + 1, "write",
                                       <<OdooText(formatDateForOdoo(start, hostOffset)),
                                         OdooText(formatDateForOdoo(stop, hostOffset))>>))
    /\ UNCHANGED <<staff, appointments, lastOdooSync, nextId, now, odooEvents,
                   nextOdooId, hostOffset, idem, uid, partners>>

\* OdooService.createAppointment: startTime and endTime through formatOdooDate
SendCreateAppointment(startTime, endTime) ==
    /\ Len(reqs) < MaxRequests
    /\ reqs' = Append(reqs, TimesCall("createAppointment", <<startTime, endTime>>))
    /\ rpc' = Append(rpc, TimesRequest(Len(reqs) + 1, "create",
                                       <<OdooText(formatOdooDate(startTime)),
                                         OdooText(formatOdooDate(endTime))>>))
    /\ UNCHANGED <<staff, appointments, lastOdooSync, nextId, now, odooEvents,
                   nextOdooId, hostOffset, idem, uid, partners>>

NextTimes ==
    \/ \E startDate \in Instants, endDate \in Instants :
           SendFetchAppointments(startDate, endDate)
    \/ \E start \in Instants, stop \in Instants : SendUpdateAppointment(start, stop)
    \/ \E startTime \in Instants, endTime \in Instants :
           SendCreateAppointment(startTime, endTime)

SpecTimes == Init /\ [][NextTimes]_vars

(***************************************************************************)
(* Properties.                                                             *)
(***************************************************************************)
Active(id) == appointments[id].status # "cancelled"

IntervalsOverlap(a, b) ==
    /\ appointments[a].startTime < appointments[b].endTime
    /\ appointments[b].startTime < appointments[a].endTime

\* C1: no two non-cancelled appointments of the same staff member overlap as
\* half-open intervals [startTime, endTime), in any reachable state.
C1_NoDoubleBooking ==
    \A a, b \in DOMAIN appointments :
        (/\ a # b
         /\ appointments[a].staffId # Null
         /\ appointments[a].staffId = appointments[b].staffId
         /\ Active(a) /\ Active(b))
        => ~IntervalsOverlap(a, b)

\* C2: at most one sync cycle is running at any time, and a sync request
\* that arrives while another is in flight is rejected (409) at once.
C2_OneSyncAtATime ==
    /\ Cardinality(InFlight("sync")) <= 1
    /\ \A i, j \in DOMAIN reqs :
          (/\ i < j /\ reqs[i].kind = "sync" /\ reqs[j].kind = "sync"
           /\ reqs[i].pc # "done")
          => (reqs[j].pc = "done" /\ reqs[j].status = 409)

SyncReturns(i) ==
    /\ i \in DOMAIN reqs
    /\ reqs[i].kind = "sync" /\ reqs[i].pc # "done"
    /\ reqs'[i].pc = "done"

\* C3: when a sync cycle ends, by success or by failure at any step, the
\* orchestrator is idle: no sync is running any more.
C3_IdleAfterSync ==
    [][\A i \in DOMAIN reqs : SyncReturns(i) => InFlight("sync")' = {}]_vars

\* C4: a sync run again over the same window, with no change in between,
\* leaves the staff and the appointments as the first run left them (same
\* ids, same fields but lastSynced) and creates no record.
C4_SyncIdempotent ==
    idem.phase = "checked"
        => /\ Observable(staff, appointments) = idem.store
           /\ reqs[idem.who].created = 0

C4_Witness ==
    /\ idem.phase = "checked"
    /\ reqs[idem.who].status = 200
    /\ reqs[idem.who].updated >= 2
    /\ lastOdooSync = now

SyncSucceeds(i) == SyncReturns(i) /\ reqs'[i].status = 200

FetchedIds(i) == {reqs'[i].odooAppointments[k].id : k \in DOMAIN reqs'[i].odooAppointments}

HoldsNone(i) == \A id \in DOMAIN appointments : appointments[id].odooEventId \notin FetchedIds(i)

\* C5: after a successful sync that fetched remote appointments none of whose
\* ids the store held, the store holds exactly one appointment per fetched
\* one, with its remote id, its remote start and end and a lastSynced, and
\* as many appointments more as were fetched.
C5_SyncCreatesEach ==
    [][\A i \in DOMAIN reqs :
          (SyncSucceeds(i) /\ HoldsNone(i))
          => /\ \A k \in DOMAIN reqs'[i].odooAppointments :
                   LET odooApp == reqs'[i].odooAppointments[k]
                       hits == {id \in DOMAIN appointments' :
                                   appointments'[id].odooEventId = odooApp.id}
                   IN  /\ Cardinality(hits) = 1
                       /\ \A id \in hits :
                             /\ appointments'[id].startTime = odooApp.start
                             /\ appointments'[id].endTime = odooApp.stop
                             /\ appointments'[id].lastSynced # Null
             /\ Cardinality(DOMAIN appointments')
                    = Cardinality(DOMAIN appointments) + Len(reqs'[i].odooAppointments)
      ]_vars

\* C6: no two local appointments share an Odoo event id and no two local
\* staff members share an Odoo resource id, in any reachable state.
C6_UniqueRemoteIds ==
    /\ \A a, b \in DOMAIN appointments :
          a # b => appointments[a].odooEventId # appointments[b].odooEventId
    /\ \A a, b \in DOMAIN staff :
          a # b => staff[a].odooUserId # staff[b].odooUserId

\* the request that arrives in this step, when it is a reschedule that
\* found its appointment
Arrives(n) ==
    /\ n = Len(reqs) + 1
    /\ Len(reqs') = n
    /\ reqs'[n].kind = "reschedule"
    /\ reqs'[n].status \notin {400, 404}

TargetStaff(r) == IF r.staffId # Null THEN r.staffId ELSE appointments[r.id].staffId

\* some other appointment of the target staff member overlaps the candidate
Occupied(id, targetStaffId, newStart, newEnd) ==
    \E a \in DOMAIN appointments :
        /\ a # id
        /\ appointments[a].staffId = targetStaffId
        /\ newStart < appointments[a].endTime
        /\ newEnd > appointments[a].startTime

RescheduleWrites(i) ==
    /\ i \in DOMAIN reqs
    /\ reqs[i].kind = "reschedule" /\ reqs[i].pc = "updateAppointment"
    /\ reqs'[i].pc = "done"

\* C7: a reschedule whose candidate interval is occupied for the target staff
\* member answers 409 with no Odoo update issued and nothing written, and
\* the Odoo update and the local commit come only after a check that passed.
C7_CheckBeforeWrite ==
    /\ [][\A n \in 1..MaxRequests + 1 :
            Arrives(n) =>
              LET r == reqs'[n]
                  occupied == /\ TargetStaff(r) # Null
                              /\ Occupied(r.id, TargetStaff(r), r.startTime, r.endTime)
              IN  /\ occupied => /\ r.status = 409 /\ r.pc = "done"
                                 /\ appointments' = appointments
                                 /\ odooEvents' = odooEvents
                  /\ ~occupied => r.pc = "updateAppointment" /\ r.status = Null
                  /\ appointments' = appointments /\ odooEvents' = odooEvents]_vars
    /\ [][\A i \in DOMAIN reqs :
            (reqs[i].kind = "reschedule" /\ reqs[i].status = 409)
            => (reqs'[i] = reqs[i] /\ ~reqs[i].odooSynced /\ ~reqs[i].committed)]_vars
    /\ [][\A i \in DOMAIN reqs : RescheduleWrites(i) => ~reqs[i].conflict]_vars

C7_Witness ==
    \E i \in DOMAIN reqs :
        /\ reqs[i].kind = "reschedule" /\ reqs[i].status = 409
        /\ \E j \in DOMAIN reqs :
              reqs[j].kind = "reschedule" /\ reqs[j].status = 200 /\ reqs[j].committed

CheckTargets == {1, 2, 3}

\* C8: the conflict detector answers true exactly when an appointment of the
\* target staff member, other than the excluded one, has
\* candidateStart < its end and candidateEnd > its start; touching intervals
\* do not conflict, overlapping ones do.
C8_ConflictIsOverlap ==
    /\ \A id \in CheckIds, targetStaffId \in CheckTargets,
          newStart \in CheckTimes, newEnd \in CheckTimes :
          hasConflict(appointments, id, targetStaffId, newStart, newEnd)
              = Occupied(id, targetStaffId, newStart, newEnd)
    /\ ~hasConflict(sampleAppointments, 99, 1, 660, 720)
    /\ hasConflict(sampleAppointments, 99, 1, 630, 690)
    /\ ~hasConflict(sampleAppointments, 11, 1, 630, 690)
    /\ ~hasConflict(sampleAppointments, 99, 3, 630, 690)

\* a reschedule onto an overlapping interval was refused, or one onto an
\* interval that touches another appointment of the staff member let through
C8_Witness ==
    \E i \in DOMAIN reqs :
        /\ reqs[i].kind = "reschedule"
        /\ reqs[i].startTime < reqs[i].endTime
        /\ reqs[i].id \in DOMAIN appointments
        /\ \E a \in DOMAIN appointments :
              /\ a # reqs[i].id
              /\ appointments[a].staffId = TargetStaff(reqs[i])
              /\ \/ /\ reqs[i].status = 409
                    /\ reqs[i].startTime > appointments[a].startTime
                    /\ reqs[i].startTime < appointments[a].endTime
                 \/ /\ reqs[i].pc = "updateAppointment"
                    /\ reqs[i].startTime = appointments[a].endTime

Committed(i) ==
    LET r == reqs[i]
    IN  /\ r.id \in DOMAIN appointments'
        /\ appointments'[r.id].startTime = r.startTime
        /\ appointments'[r.id].endTime = r.endTime
        /\ r.staffId # Null => appointments'[r.id].staffId = r.staffId

Flagged(i) ==
    LET r == reqs[i]
    IN  /\ reqs'[i].status = 200
        /\ reqs'[i].odooSynced
              => /\ r.odooEventId \in DOMAIN odooEvents'
                 /\ odooEvents'[r.odooEventId].start
                        = formatDateForOdoo(r.startTime, hostOffset)
                 /\ odooEvents'[r.odooEventId].stop
                        = formatDateForOdoo(r.endTime, hostOffset)
        /\ ~reqs'[i].odooSynced => odooEvents' = odooEvents

\* C10 as claimed: once the check has passed the local appointment is always
\* committed with the new start, end and staff, and the answer is a success
\* whose flag tells whether the Odoo update succeeded.
C10_AlwaysCommitted ==
    [][\A i \in DOMAIN reqs : RescheduleWrites(i) => Committed(i) /\ Flagged(i)]_vars

\* C10 as amended: the same, for an appointment that is still in the store
\* when the Odoo call settles.
C10_CommittedIfPresent ==
    [][\A i \in DOMAIN reqs :
          RescheduleWrites(i)
          => /\ Flagged(i)
             /\ reqs[i].id \in DOMAIN appointments => Committed(i)
             /\ reqs[i].id \notin DOMAIN appointments => appointments' = appointments
      ]_vars

\* a reschedule was committed locally although its Odoo update failed
C10_Witness ==
    \E i \in DOMAIN reqs :
        /\ reqs[i].kind = "reschedule" /\ reqs[i].status = 200
        /\ ~reqs[i].odooSynced /\ reqs[i].committed
        /\ reqs[i].id \in DOMAIN appointments
        /\ appointments[reqs[i].id].startTime = reqs[i].startTime
        /\ appointments[reqs[i].id].lastSynced = now

\* the direct delete answers in this step
CancelReturns(n) ==
    /\ n = Len(reqs) + 1
    /\ Len(reqs') = n
    /\ reqs'[n].kind = "deleteAppointment"

\* C11: cancelling an existing appointment removes it locally, attempts the
\* delete of its Odoo event, and tells in the response whether that delete
\* succeeded.
C11_CancelPropagates ==
    [][\A n \in 1..MaxRequests :
          (CancelReturns(n) /\ reqs'[n].status = 200)
          => /\ DOMAIN appointments' # DOMAIN appointments
             /\ \A id \in DOMAIN appointments \ DOMAIN appointments' :
                   /\ "odooSynced" \in DOMAIN reqs'[n]
                   /\ appointments[id].odooEventId \in DOMAIN odooEvents
                         => (reqs'[n].odooSynced
                                = (appointments[id].odooEventId \notin DOMAIN odooEvents'))
      ]_vars

\* a reschedule request arrives in this step
RescheduleArrives(n) ==
    /\ n = Len(reqs) + 1
    /\ Len(reqs') = n
    /\ reqs'[n].kind = "reschedule"

StoreUnchanged ==
    /\ staff' = staff
    /\ appointments' = appointments
    /\ lastOdooSync' = lastOdooSync

NoRemoteCall == odooEvents' = odooEvents /\ rpc' = rpc

CancelOfAbsent ==
    \A id \in DirectIds :
        (DeleteAppointment(id) /\ id \notin DOMAIN appointments)
        => /\ reqs'[Len(reqs')].status = 404
           /\ StoreUnchanged /\ NoRemoteCall

\* C12 as claimed: a reschedule or a cancel of an id that is not in the store
\* answers 404, calls Odoo for nothing and leaves appointments, staff and
\* settings unchanged.
C12_AbsentIs404 ==
    [][/\ \A n \in 1..MaxRequests :
             (RescheduleArrives(n) /\ reqs'[n].id \notin DOMAIN appointments)
             => /\ reqs'[n].status = 404 /\ reqs'[n].pc = "done"
                /\ StoreUnchanged /\ NoRemoteCall
       /\ CancelOfAbsent]_vars

\* C12 as amended: the same for a reschedule that carries both times; one
\* that lacks them answers 400 before the appointment is looked up, with the
\* same absence of effects.
C12_AbsentIs404AfterTimes ==
    [][/\ \A n \in 1..MaxRequests :
             (RescheduleArrives(n) /\ reqs'[n].id \notin DOMAIN appointments)
             => /\ reqs'[n].status
                      = IF reqs'[n].startTime = Null \/ reqs'[n].endTime = Null
                        THEN 400 ELSE 404
                /\ reqs'[n].pc = "done"
                /\ StoreUnchanged /\ NoRemoteCall
       /\ CancelOfAbsent]_vars

\* a reschedule with both times and a cancel were both answered 404
C12_Witness ==
    /\ \E i \in DOMAIN reqs :
          /\ reqs[i].kind = "reschedule" /\ reqs[i].status = 404
          /\ reqs[i].startTime # Null /\ reqs[i].id \notin DOMAIN appointments
    /\ \E j \in DOMAIN reqs :
          reqs[j].kind = "deleteAppointment" /\ reqs[j].status = 404

\* C13: every local appointment has duration = endTime - startTime in
\* minutes, in any reachable state.
C13_DurationIsLength ==
    \A id \in DOMAIN appointments :
        appointments[id].duration
            = appointments[id].endTime - appointments[id].startTime

\* C20: a sync that fails answers with the error, leaves the watermark as it
\* was and takes back nothing written before the failure; the watermark
\* changes only in the step that ends a cycle in success.
C20_FailedSyncKeepsWatermark ==
    /\ [][\A i \in DOMAIN reqs :
            (SyncReturns(i) /\ ~SyncSucceeds(i))
            => /\ reqs'[i].status = 500
               /\ lastOdooSync' = lastOdooSync
               /\ staff' = staff
               /\ appointments' = appointments]_vars
    /\ [][lastOdooSync' # lastOdooSync
            => \E i \in DOMAIN reqs :
                  /\ SyncSucceeds(i)
                  /\ reqs[i].pc = "fetchAppointments"
                  /\ lastOdooSync' = now]_vars

\* a cycle failed at fetchAppointments: the staff member its staff loop
\* created is kept and the watermark was never written
C20_Witness ==
    /\ \E i \in DOMAIN reqs : reqs[i].kind = "sync" /\ reqs[i].status = 500
    /\ getStaffByOdooUserId(staff, 5) # Null
    /\ lastOdooSync = Null

\* a schedule whose text parses to a list of entries
WellFormed(workingHours) ==
    /\ workingHours.kind = "list"
    /\ \A k \in DOMAIN workingHours.value : workingHours.value[k].kind = "entry"

AvailabilityCalls == {i \in DOMAIN reqs : reqs[i].kind = "isStaffAvailable"}

\* C14: with a well-formed schedule the answer is true exactly when some
\* entry has the slot's weekday counted from Monday = 0 and
\* hourFrom <= hour + minute/60 < hourTo; an empty schedule answers false.
C14_AvailableInsidePeriod ==
    \A i \in AvailabilityCalls :
        LET workingHours == staff[reqs[i].staffId].workingHours
            t == reqs[i].slotTime
        IN  WellFormed(workingHours)
            => reqs[i].result
                 = \E k \in DOMAIN workingHours.value :
                      /\ workingHours.value[k].dayOfWeek = (t.day + 6) % 7
                      /\ workingHours.value[k].hourFrom <= 60 * t.hours + t.minutes
                      /\ 60 * t.hours + t.minutes < workingHours.value[k].hourTo

\* a Monday slot at 17:00 sharp, the end of a period, was answered
\* unavailable
C14_Witness ==
    \E i \in AvailabilityCalls :
        LET workingHours == staff[reqs[i].staffId].workingHours
            t == reqs[i].slotTime
        IN  /\ WellFormed(workingHours)
            /\ \E k \in DOMAIN workingHours.value :
                  /\ workingHours.value[k].dayOfWeek = (t.day + 6) % 7
                  /\ workingHours.value[k].hourTo = 60 * t.hours + t.minutes
            /\ ~reqs[i].result

\* C15 as claimed: whenever workingHours is absent, empty, not parseable or
\* parses to something that is not a list of entries, the answer is true.
C15_FailsOpen ==
    \A i \in AvailabilityCalls :
        ~WellFormed(staff[reqs[i].staffId].workingHours) => reqs[i].result

\* C15 as amended: the answer is true when workingHours is absent, empty,
\* not parseable or parses to something that is not a list; for a list that
\* holds elements that are not entries it is true exactly when the list
\* holds a null or an entry matching the slot: numbers and objects without
\* the fields match nothing.
C15_FailsOpenUnlessList ==
    \A i \in AvailabilityCalls :
        LET workingHours == staff[reqs[i].staffId].workingHours
            t == reqs[i].slotTime
        IN  ~WellFormed(workingHours)
            => reqs[i].result
                 = \/ workingHours.kind # "list"
                   \/ \E k \in DOMAIN workingHours.value :
                         \/ workingHours.value[k].kind = "null"
                         \/ /\ workingHours.value[k].kind = "entry"
                            /\ workingHours.value[k].dayOfWeek = (t.day + 6) % 7
                            /\ workingHours.value[k].hourFrom <= 60 * t.hours + t.minutes
                            /\ 60 * t.hours + t.minutes < workingHours.value[k].hourTo

\* text that is not JSON was answered available
C15_Witness ==
    \E i \in AvailabilityCalls :
        /\ staff[reqs[i].staffId].workingHours.kind = "garbage"
        /\ reqs[i].result

\* C16: the weekday conversion is (nativeDay + 6) % 7 on 0..6, a bijection;
\* with the schedule {dayOfWeek 0, 9 to 17} a slot at 10:00 is available on
\* Monday and on no other day.
C16_WeekdayConversion ==
    /\ \A d \in 0..6 : odooDayOfWeek(d) = (d + 6) % 7
    /\ {odooDayOfWeek(d) : d \in 0..6} = 0..6
    /\ \A i \in AvailabilityCalls :
          (/\ staff[reqs[i].staffId].workingHours = JsonList(<<Entry(0, 540, 1020)>>)
           /\ reqs[i].slotTime.hours = 10)
          => reqs[i].result = (reqs[i].slotTime.day = 1)

\* with that schedule a Monday 10:00 slot was answered available
C16_Witness ==
    \E i \in AvailabilityCalls :
        /\ staff[reqs[i].staffId].workingHours = JsonList(<<Entry(0, 540, 1020)>>)
        /\ reqs[i].slotTime = SlotTime(1, 10, 0)
        /\ reqs[i].result

PartnerCallIds == {i \in DOMAIN reqs : reqs[i].kind = "findOrCreatePartner"}

EmailMatches(data) ==
    {id \in DOMAIN partners : data.email # "" /\ partners[id].email = data.email}

PhoneMatches(data) ==
    {id \in DOMAIN partners : data.phone # "" /\ partners[id].phone = data.phone}

PartnerReturns(i) ==
    /\ reqs[i].pc # "done"
    /\ reqs'[i].pc = "done" /\ reqs'[i].outcome = "returned"

\* an existing partnerId is returned with no further request; a record is
\* created only when the id, the email and the phone all match nothing
PartnerIdFirstCreateLast(i) ==
    /\ (PartnerReturns(i) /\ reqs[i].pc = "verify")
          => /\ reqs'[i].result = reqs[i].data.partnerId
             /\ reqs[i].data.partnerId \in DOMAIN partners
             /\ rpc' = rpc /\ partners' = partners
    /\ (reqs[i].pc # "create" /\ reqs'[i].pc = "create")
          => /\ EmailMatches(reqs[i].data) = {}
             /\ PhoneMatches(reqs[i].data) = {}
             /\ reqs[i].data.partnerId \notin DOMAIN partners
    /\ (PartnerReturns(i) /\ reqs[i].pc = "create")
          => /\ reqs'[i].result \notin DOMAIN partners
             /\ reqs'[i].result \in DOMAIN partners'
             /\ partners'[reqs'[i].result].email = reqs[i].data.email
             /\ partners'[reqs'[i].result].phone = reqs[i].data.phone

\* C17 as claimed: an existing partnerId first, else a partner with the
\* email, else one with the phone, else a new one: when a partner has the
\* email, the answer is a partner that has the email.
C17_EmailBeforePhone ==
    [][\A i \in PartnerCallIds :
          /\ PartnerIdFirstCreateLast(i)
          /\ (PartnerReturns(i) /\ reqs[i].pc = "search")
                => /\ EmailMatches(reqs[i].data) # {}
                      => reqs'[i].result \in EmailMatches(reqs[i].data)
                   /\ EmailMatches(reqs[i].data) = {}
                      => reqs'[i].result \in PhoneMatches(reqs[i].data)
      ]_vars

\* C17 as amended: an existing partnerId first, else a partner that has the
\* email or the phone, with no order between the two, else a new one.
C17_EmailOrPhone ==
    [][\A i \in PartnerCallIds :
          /\ PartnerIdFirstCreateLast(i)
          /\ (PartnerReturns(i) /\ reqs[i].pc = "search")
                => /\ reqs'[i].result \in EmailMatches(reqs[i].data)
                                            \cup PhoneMatches(reqs[i].data)
                   /\ partners' = partners /\ rpc' = rpc
      ]_vars

\* a call whose email belongs to one partner and whose phone to another
\* returned the partner that has only the phone
C17_Witness ==
    \E i \in PartnerCallIds :
        /\ reqs[i].outcome = "returned"
        /\ EmailMatches(reqs[i].data) # {}
        /\ reqs[i].result \in PhoneMatches(reqs[i].data) \ EmailMatches(reqs[i].data)

\* C18: no two partners carry the same given (email, phone) pair, whatever
\* the interleaving of the calls.
C18_NoDuplicatePartner ==
    \A a, b \in DOMAIN partners :
        (/\ a # b
         /\ partners[a].email = partners[b].email
         /\ partners[a].phone = partners[b].phone)
        => (partners[a].email = "" /\ partners[a].phone = "")

\* the authenticate requests sent so far
AuthRequests(log) == {k \in DOMAIN log : log[k].method = "authenticate"}

\* a call of authenticate or executeKw is made in this step
ServiceCallArrives(n) ==
    /\ n = Len(reqs) + 1
    /\ Len(reqs') = n
    /\ reqs'[n].kind \in {"authenticate", "executeKw"}

\* C19: once an authentication has succeeded every later call gets the same
\* uid with no authenticate request sent; a failed authentication caches
\* nothing, rejects with an authentication error and the execute_kw that
\* waited for it is not sent.
C19_AuthenticateCached ==
    /\ [][uid # Null => uid' = uid /\ AuthRequests(rpc') = AuthRequests(rpc)]_vars
    /\ [][\A n \in 1..MaxRequests :
            (ServiceCallArrives(n) /\ uid # Null)
            => IF reqs'[n].kind = "authenticate"
               THEN /\ reqs'[n].pc = "done" /\ reqs'[n].result = uid
                    /\ rpc' = rpc
               ELSE /\ reqs'[n].pc = "execute_kw"
                    /\ rpc' = Append(rpc, ExecuteRequest(n, reqs'[n].method, uid))]_vars
    /\ [][\A i \in DOMAIN reqs :
            (/\ reqs[i].kind \in {"authenticate", "executeKw"}
             /\ reqs[i].pc = "authenticate"
             /\ reqs'[i].pc = "done" /\ reqs'[i].outcome # "returned")
            => /\ reqs'[i].outcome = "authentication failed"
               /\ uid' = uid
               /\ rpc' = rpc]_vars

\* after a successful authenticate() a later executeKw was sent with the
\* cached uid and returned: the only authenticate request is the first call's
C19_Witness ==
    /\ uid = OdooUid
    /\ \E i, j \in DOMAIN reqs :
          /\ i < j
          /\ reqs[i].kind = "authenticate" /\ reqs[i].outcome = "returned"
          /\ reqs[j].kind = "executeKw" /\ reqs[j].outcome = "returned"
          /\ \A k \in AuthRequests(rpc) : rpc[k].call = i
          /\ \E k \in DOMAIN rpc : rpc[k].call = j /\ rpc[k].uid = OdooUid

\* the schedule Odoo holds for a resource, as the staff record stores it
RemoteSchedule(resource) ==
    JsonList(fetchResourceCalendar(resource.resource_calendar_id))

\* C21: a successful sync leaves every staff member that corresponds to a
\* fetched resource, those that existed before the sync included, with the
\* working-hours schedule Odoo holds for that resource.
C21_SyncRefreshesWorkingHours ==
    [][\A i \in DOMAIN reqs :
          SyncSucceeds(i)
          => \A k \in DOMAIN OdooResources, id \in DOMAIN staff' :
                staff'[id].odooUserId = OdooResources[k].id
                => staff'[id].workingHours = RemoteSchedule(OdooResources[k])]_vars

BookCalls == {i \in DOMAIN reqs : reqs[i].kind = "book"}

\* the await of odooService.createAppointment of booking i settles in this step
BookCreateSettles(i) ==
    /\ i \in BookCalls
    /\ reqs[i].pc = "createAppointment" /\ reqs'[i].pc # "createAppointment"

\* booking i writes a local appointment in this step
BookStores(i) ==
    /\ i \in BookCalls
    /\ Len(reqs'[i].createdAppointments) = Len(reqs[i].createdAppointments) + 1

\* C22: booking is remote-first.  The step that settles the remote create
\* writes no local appointment: it either hands the handler the id of an
\* event Odoo has just created, or ends the request in an error with nothing
\* stored for that service.  The local appointment is written in a later
\* step and carries exactly that id.  So every appointment a booking created
\* has a remote id.
C22_RemoteFirst ==
    /\ [][\A i \in DOMAIN reqs :
            BookCreateSettles(i)
            => /\ appointments' = appointments
               /\ reqs'[i].createdAppointments = reqs[i].createdAppointments
               /\ IF reqs'[i].pc = "storeAppointment"
                  THEN /\ reqs'[i].odooEventId \in DOMAIN odooEvents' \ DOMAIN odooEvents
                       /\ reqs'[i].odooEventId # Null
                  ELSE /\ reqs'[i].pc = "done" /\ reqs'[i].status = 500
                       /\ odooEvents' = odooEvents]_vars
    /\ [][\A i \in DOMAIN reqs :
            BookStores(i)
            => LET id == reqs'[i].createdAppointments[Len(reqs'[i].createdAppointments)]
               IN  /\ reqs[i].pc = "storeAppointment"
                   /\ reqs[i].odooEventId \in DOMAIN odooEvents
                   /\ DOMAIN appointments' = DOMAIN appointments \cup {id}
                   /\ id \notin DOMAIN appointments
                   /\ appointments'[id].odooEventId = reqs[i].odooEventId]_vars
    /\ [](\A i \in BookCalls :
            \A k \in DOMAIN reqs[i].createdAppointments :
                reqs[i].createdAppointments[k] \in DOMAIN appointments
                => appointments[reqs[i].createdAppointments[k]].odooEventId
                       \in DOMAIN odooEvents)

\* a booking of three services: the unknown type was skipped, the first
\* known one was created remotely and then stored with the id Odoo gave, the
\* remote create of the next one failed and nothing was stored for it
C22_Witness ==
    \E i \in BookCalls :
        /\ reqs[i].pc = "done" /\ reqs[i].status = 500
        /\ reqs[i].appointmentTypeIds = <<9, 1, 2>>
        /\ reqs[i].idx = 3
        /\ Len(reqs[i].createdAppointments) = 1
        /\ appointments[reqs[i].createdAppointments[1]].odooEventId = 504
        /\ 504 \in DOMAIN odooEvents
        /\ Cardinality(DOMAIN appointments) = Cardinality(DOMAIN sampleAppointments) + 1

\* minutes of all the known services of a booking: calculateTotalDuration
RECURSIVE TotalDuration(_)
TotalDuration(typeIds) ==
    IF typeIds = <<>> THEN 0
    ELSE (IF Head(typeIds) \in DOMAIN OdooAppointmentTypes
          THEN OdooAppointmentTypes[Head(typeIds)].appointment_duration * 60
          ELSE 0) + TotalDuration(Tail(typeIds))

\* C23: a booking that answers with success has created one appointment,
\* however many services it selected: one remote event and one local
\* appointment whose interval is as long as all the selected services.
C23_OneCombinedAppointment ==
    \A i \in BookCalls :
        (reqs[i].pc = "done" /\ reqs[i].status = 200)
        => /\ Len(reqs[i].createdAppointments) = 1
           /\ LET id == reqs[i].createdAppointments[1]
              IN  id \in DOMAIN appointments
                  => appointments[id].endTime - appointments[id].startTime
                         = TotalDuration(reqs[i].appointmentTypeIds)

RescheduleCalls == {i \in DOMAIN reqs : reqs[i].kind = "reschedule"}

Succeeded(i) == reqs[i].pc = "done" /\ reqs[i].status = 200

\* two answered reschedules moved different appointments to overlapping
\* intervals of one staff member
SameSlot(i, j) ==
    /\ i # j /\ reqs[i].id # reqs[j].id
    /\ Succeeded(i) /\ Succeeded(j)
    /\ appointments[reqs[i].id].staffId # Null
    /\ appointments[reqs[i].id].staffId = appointments[reqs[j].id].staffId
    /\ reqs[i].startTime < reqs[j].endTime /\ reqs[j].startTime < reqs[i].endTime

\* C24: nothing holds a reschedule back once its check has passed.  When the
\* handler resumes after the Odoo update it commits and answers with success
\* whatever has been committed to the store in the meantime: if another
\* appointment of the target staff member now overlaps the new interval,
\* the store holds the conflicting pair after the commit.  So two
\* reschedules of different appointments that both passed the check for
\* overlapping intervals of one staff member both succeed.
C24_RaceCommitsBoth ==
    [][\A i \in DOMAIN reqs :
          (RescheduleWrites(i) /\ reqs[i].id \in DOMAIN appointments)
          => LET r == reqs[i]
                 target == appointments'[r.id].staffId
             IN  /\ reqs'[i].status = 200
                 /\ Committed(i)
                 /\ \A b \in DOMAIN appointments \ {r.id} :
                       (/\ target # Null
                        /\ appointments[b].staffId = target
                        /\ r.startTime < appointments[b].endTime
                        /\ appointments[b].startTime < r.endTime)
                       => /\ b \in DOMAIN appointments'
                          /\ appointments'[b].staffId = appointments'[r.id].staffId
                          /\ appointments'[r.id].startTime < appointments'[b].endTime
                          /\ appointments'[b].startTime < appointments'[r.id].endTime]_vars

\* appointments 11 and 13 were both moved to 10:00-11:00 of staff member 2:
\* each check ran before the other's commit, both answered with success
C24_Witness ==
    \E i, j \in RescheduleCalls :
        /\ SameSlot(i, j)
        /\ reqs[i].id = 11 /\ reqs[j].id = 13
        /\ appointments[11].staffId = 2 /\ appointments[13].staffId = 2
        /\ Active(11) /\ Active(13)
        /\ IntervalsOverlap(11, 13)

\* C25: every time value in a request to Odoo is the 'YYYY-MM-DD HH:MM:SS'
\* text of the UTC fields of the instant it stands for, whichever operation
\* sends it and whatever the host's time zone; so the update and the create
\* send the same text for the same instant and no ISO text is sent.
C25_UtcTextEverywhere ==
    \A k \in DOMAIN rpc :
        \A f \in DOMAIN rpc[k].times :
            rpc[k].times[f] = OdooText(reqs[rpc[k].call].dates[f])

\* the record a sync writes for a fetched event: the first with its remote id
SyncedRecord(odooApp) ==
    Min({id \in DOMAIN appointments' : appointments'[id].odooEventId = odooApp.id})

\* C26: after a successful sync the appointment of every fetched event,
\* created or overwritten, has the staff member whose remote id is the
\* event's resource, and none when the event has no resource or no staff
\* member has that remote id, whatever staff member it had before.
C26_StaffByResource ==
    [][\A i \in DOMAIN reqs :
          SyncSucceeds(i)
          => \A k \in DOMAIN reqs'[i].odooAppointments :
                LET odooApp == reqs'[i].odooAppointments[k]
                    staffId == appointments'[SyncedRecord(odooApp)].staffId
                    known == {s \in DOMAIN staff :
                                 staff[s].odooUserId = odooApp.appointment_resource_id}
                IN  IF odooApp.appointment_resource_id = Null \/ known = {}
                    THEN staffId = Null
                    ELSE staffId \in known]_vars

\* a sync over the whole day has answered: appointment 13, which had staff
\* member 2, has none now because no staff member has remote id 9; the
\* appointment created for event 503, which has no resource, has none; the
\* one created for event 501 has the staff member of resource 1
C26_Witness ==
    /\ \E i \in DOMAIN reqs : reqs[i].kind = "sync" /\ reqs[i].status = 200
    /\ 13 \in DOMAIN appointments /\ appointments[13].staffId = Null
    /\ sampleAppointments[13].staffId = 2
    /\ \E a, b \in DOMAIN appointments :
          /\ appointments[a].odooEventId = 503 /\ appointments[a].staffId = Null
          /\ appointments[b].odooEventId = 501 /\ appointments[b].staffId = 1

Degraded(j) ==
    /\ j \in RescheduleCalls
    /\ Succeeded(j) /\ reqs[j].committed /\ ~reqs[j].odooSynced
    /\ reqs[j].id \in DOMAIN appointments

\* C28: a reschedule committed locally whose Odoo update failed is undone by
\* the next successful sync that fetches its event: the appointment gets the
\* start and end of the event as Odoo holds them and the staff member of the
\* event's resource, whatever other appointments that staff member has.
C28_DegradedRescheduleOverwritten ==
    [][\A i \in DOMAIN reqs :
          SyncSucceeds(i)
          => \A j \in DOMAIN reqs, k \in DOMAIN reqs'[i].odooAppointments :
                LET odooApp == reqs'[i].odooAppointments[k]
                    id == reqs[j].id
                IN  (/\ Degraded(j)
                     /\ getAppointmentByOdooEventId(appointments, odooApp.id) = id)
                    => /\ appointments'[id].startTime = odooApp.start
                       /\ appointments'[id].endTime = odooApp.stop
                       /\ appointments'[id].staffId =
                             (IF odooApp.appointment_resource_id = Null THEN Null
                              ELSE getStaffByOdooUserId(staff,
                                       odooApp.appointment_resource_id))]_vars

\* a step of a sync: the request arrives or one of its awaits settles
SyncSteps(i) ==
    /\ i \in DOMAIN reqs'
    /\ reqs'[i].kind = "sync"
    /\ i \in DOMAIN reqs => reqs'[i] # reqs[i]

\* the remote ids the step received from fetchAppointments
Fetched(i) ==
    {reqs'[i].odooAppointments[k].id : k \in DOMAIN reqs'[i].odooAppointments}

\* C29: no step of a sync, of one that succeeds or of one that fails, removes
\* a record: every staff member and every appointment in the store before
\* the step is in it after the step under the same local id and with the
\* same remote id, and an appointment whose remote id was not fetched is
\* exactly as it was.
C29_SyncRemovesNothing ==
    [][\A i \in DOMAIN reqs' :
          SyncSteps(i)
          => /\ \A s \in DOMAIN staff :
                   /\ s \in DOMAIN staff'
                   /\ staff'[s].odooUserId = staff[s].odooUserId
             /\ \A a \in DOMAIN appointments :
                   /\ a \in DOMAIN appointments'
                   /\ appointments'[a].odooEventId = appointments[a].odooEventId
                   /\ appointments[a].odooEventId \notin Fetched(i)
                         => appointments'[a] = appointments[a]]_vars

\* a sync over the whole day has succeeded: appointment 12, whose event Odoo
\* does not hold, is as constructed; appointment 11 was overwritten and is
\* still appointment 11 of event 1001; appointments were added
C29_Witness ==
    /\ \E i \in DOMAIN reqs :
          /\ reqs[i].kind = "sync" /\ reqs[i].status = 200
          /\ reqs[i].updated >= 1 /\ reqs[i].created >= 1
    /\ DOMAIN sampleAppointments \subseteq DOMAIN appointments
    /\ DOMAIN sampleStaff \subseteq DOMAIN staff
    /\ appointments[12] = sampleAppointments[12]
    /\ appointments[11].lastSynced > 0 /\ appointments[11].odooEventId = 1001
    /\ Cardinality(DOMAIN appointments) > Cardinality(DOMAIN sampleAppointments)

\* the fields of an appointment a reschedule may write
RescheduleFields == {"startTime", "endTime", "staffId", "lastSynced"}

\* C30: a reschedule of appointment A changes nothing but A.  The step in
\* which the request arrives, which is the whole of a rejected request (400,
\* 404 or 409), leaves staff, appointments and settings as they are.  The
\* step that commits leaves staff, settings and every other appointment as
\* they are, keeps A under its id, writes A's start and end and, when the
\* request has a staff id, A's staff member, and keeps every other field of A
\* but lastSynced.
C30_RescheduleFrame ==
    /\ [][\A n \in 1..MaxRequests + 1 : RescheduleArrives(n) => StoreUnchanged]_vars
    /\ [][\A i \in DOMAIN reqs :
            RescheduleWrites(i)
            => LET r == reqs[i]
               IN  /\ staff' = staff
                   /\ lastOdooSync' = lastOdooSync
                   /\ DOMAIN appointments' = DOMAIN appointments
                   /\ \A b \in DOMAIN appointments \ {r.id} :
                         appointments'[b] = appointments[b]
                   /\ r.id \in DOMAIN appointments
                         => /\ \A f \in DOMAIN appointments[r.id] \ RescheduleFields :
                                  appointments'[r.id][f] = appointments[r.id][f]
                            /\ DOMAIN appointments'[r.id] = DOMAIN appointments[r.id]
                            /\ appointments'[r.id].startTime = r.startTime
                            /\ appointments'[r.id].endTime = r.endTime
                            /\ appointments'[r.id].staffId =
                                  (IF r.staffId # Null THEN r.staffId
                                   ELSE appointments[r.id].staffId)]_vars

\* after a sync had set the watermark, appointment 13 was moved to 10:00 by a
\* request without a staff id: it keeps its staff member, event, customer and
\* status, and the watermark and appointment 11 are as the sync left them
C30_Witness ==
    /\ lastOdooSync # Null
    /\ \E j \in RescheduleCalls :
          /\ Succeeded(j) /\ reqs[j].committed
          /\ reqs[j].id = 13 /\ reqs[j].staffId = Null /\ reqs[j].startTime = 600
    /\ appointments[13].startTime = 600 /\ appointments[13].endTime = 660
    /\ appointments[13].staffId = 2 /\ appointments[13].odooEventId = 1003
    /\ appointments[13].customerName = "James Wilson"
    /\ appointments[13].status = "confirmed"
    /\ appointments[13].lastSynced > 0
    /\ appointments[11] = sampleAppointments[11]

====
